---- MODULE Spec2Model ----
(***************************************************************************)
(* Model of the trigger bank of Triggers.cpp (WdRiscv::Triggers<URV> and   *)
(* the Trigger<URV> methods it defines).  The bank is a vector of          *)
(* triggers; every bank method is one action.  The register layout and the *)
(* inline Trigger methods live in Triggers.hpp; they are modelled from the *)
(* specification, with data1 kept as its decoded fields.                   *)
(***************************************************************************)
EXTENDS Integers, Sequences, FiniteSets, TLC

VARIABLES
  triggers,    \* triggers_: sequence of trigger records, index k+1 = trigger k
  chainPairs,  \* chainPairs_
  op,          \* the last bank call: [name, n0 (the trigger count before it)]
  ret,         \* its result: "true", "false", "void", or "out_of_range" (the
               \* std::out_of_range exception of vector::at)
  out          \* the caller's variables passed by reference to readData1..3
               \* and peek, as the last such call left them

vars == <<triggers, chainPairs, op, ret, out>>

----------------------------------------------------------------------------
(* Bounds *)

MaxTriggers == 3      \* largest trigger count / index explored
HalfBits == 2         \* half of the register width: 4*sizeof(URV) bits
CountBits == 2        \* width of the icount count field

W == 2 * HalfBits
Pow2(n) == 2 ^ n
URV == 0 .. (Pow2(W) - 1)
AllOnes == Pow2(W) - 1

----------------------------------------------------------------------------
(* Bitwise operations on W-bit unsigned values *)

RECURSIVE BitAndN(_, _, _)
BitAndN(a, b, n) ==
  IF n = 0 THEN 0
  ELSE (IF a % 2 = 1 /\ b % 2 = 1 THEN 1 ELSE 0)
       + 2 * BitAndN(a \div 2, b \div 2, n - 1)

BitAnd(a, b) == BitAndN(a, b, W)
BitNot(a) == AllOnes - a
BitOr(a, b) == BitNot(BitAnd(BitNot(a), BitNot(b)))
Shl(a, n) == (a * Pow2(n)) % Pow2(W)
Shr(a, n) == a \div Pow2(n)

----------------------------------------------------------------------------
(* Trigger: register data1 as decoded fields *)

Data1Fields ==
  {"type", "dmode", "m", "chain", "match", "select", "timing",
   "execute", "load", "store", "action", "count"}

ZeroData1 ==
  [type |-> "None", dmode |-> FALSE, m |-> FALSE, chain |-> FALSE,
   match |-> "Equal", select |-> "MatchAddress", timing |-> "Before",
   execute |-> FALSE, load |-> FALSE, store |-> FALSE,
   action |-> "RaiseBreak", count |-> 0]

\* (x & mask) | (old & ~mask), field by field for data1
MaskData1(old, x, mask) ==
  [f \in Data1Fields |-> IF f \in mask THEN x[f] ELSE old[f]]

\* (x & mask) | (old & ~mask) for data2 / data3
MaskValue(old, x, mask) == BitOr(BitAnd(x, mask), BitAnd(old, BitNot(mask)))

getChain(t) == t.data1.chain
getTiming(t) == t.data1.timing
getLocalHit(t) == t.localHit
isModified(t) == t.modified
isEnterDebugOnHit(t) == t.data1.action = "EnterDebug"
isDebugModeOnly(t) == t.data1.dmode

setChainBounds(t, b, e) == [t EXCEPT !.chainBegin = b, !.chainEnd = e]
setHit(t, flag) == [t EXCEPT !.hit = flag]
setLocalHit(t, flag) == [t EXCEPT !.localHit = flag]

\* Pre-computed mask of the Masked compare: the bits above the least
\* significant zero bit of data2
RECURSIVE leastSigZeroBit(_)
leastSigZeroBit(value) ==
  IF value % 2 = 1 THEN 1 + leastSigZeroBit(value \div 2) ELSE 0

updateCompareMask(t) ==
  LET lsz == leastSigZeroBit(t.data2)
  IN [t EXCEPT !.data2CompareMask =
        IF lsz < W THEN Shl(AllOnes, lsz + 1) ELSE AllOnes]

\* A default-constructed trigger
DefaultTrigger ==
  updateCompareMask(
  [data1 |-> ZeroData1, data2 |-> 0, data3 |-> 0,
   data1Reset |-> ZeroData1, data2Reset |-> 0, data3Reset |-> 0,
   data1WriteMask |-> Data1Fields, data2WriteMask |-> AllOnes, data3WriteMask |-> 0,
   data1PokeMask |-> Data1Fields, data2PokeMask |-> AllOnes, data3PokeMask |-> 0,
   data2CompareMask |-> AllOnes,
   chainBegin |-> 0, chainEnd |-> 0,
   hit |-> FALSE, localHit |-> FALSE, modified |-> FALSE])

\* Trigger::writeData1: <<applied?, trigger>>
TrigWriteData1(t, debugMode, x) ==
  IF isDebugModeOnly(t) /\ ~debugMode
  THEN <<FALSE, t>>
  ELSE LET mask == IF debugMode THEN t.data1WriteMask
                   ELSE t.data1WriteMask \ {"dmode"}
       IN <<TRUE, [t EXCEPT !.data1 = MaskData1(t.data1, x, mask),
                            !.modified = TRUE]>>

\* Trigger::writeData2: <<applied?, trigger>>
TrigWriteData2(t, debugMode, value) ==
  IF isDebugModeOnly(t) /\ ~debugMode
  THEN <<FALSE, t>>
  ELSE <<TRUE, updateCompareMask(
                 [t EXCEPT !.data2 = MaskValue(t.data2, value, t.data2WriteMask),
                           !.modified = TRUE])>>

TrigPokeData1(t, x) == [t EXCEPT !.data1 = x]
TrigPokeData2(t, x) == updateCompareMask([t EXCEPT !.data2 = x])
TrigPokeData3(t, x) == [t EXCEPT !.data3 = x]

\* Trigger::readData1..3: the raw register values
TrigReadData1(t) == t.data1
TrigReadData2(t) == t.data2
TrigReadData3(t) == t.data3

\* Trigger::peek, both overloads: <<result, values of the reference arguments>>
TrigPeek(t) == <<TRUE, <<t.data1, t.data2, t.data3>>>>
TrigPeekAll(t) ==
  <<TRUE, <<t.data1, t.data2, t.data3,
            t.data1WriteMask, t.data2WriteMask, t.data3WriteMask,
            t.data1PokeMask, t.data2PokeMask, t.data3PokeMask>>>>

configData1(t, reset, mask, pokeMask) ==
  [t EXCEPT !.data1Reset = reset, !.data1WriteMask = mask, !.data1PokeMask = pokeMask]
configData2(t, reset, mask, pokeMask) ==
  [t EXCEPT !.data2Reset = reset, !.data2WriteMask = mask, !.data2PokeMask = pokeMask]
configData3(t, reset, mask, pokeMask) ==
  [t EXCEPT !.data3Reset = reset, !.data3WriteMask = mask, !.data3PokeMask = pokeMask]

TrigReset(t) ==
  updateCompareMask([t EXCEPT !.data1 = t.data1Reset, !.data2 = t.data2Reset,
                              !.data3 = t.data3Reset])

\* Trigger::instCountdown: <<expired?, trigger>>
instCountdown(t) ==
  IF t.data1.type # "InstCount"
  THEN <<FALSE, t>>
  ELSE LET c == (t.data1.count - 1) % Pow2(CountBits)
       IN <<c = 0, [t EXCEPT !.data1.count = c]>>

----------------------------------------------------------------------------
(* Trigger: the comparator and the four match predicates *)

\* doMatch whose half-word modes mask with data2 as it is, the shift that
\* brings the masking half over the masked half left out
doMatchMaskUnshifted(t, item) ==
  CASE t.data1.match = "Equal" -> item = t.data2
    [] t.data1.match = "Masked" ->
         BitAnd(item, t.data2CompareMask) = BitAnd(t.data2, t.data2CompareMask)
    [] t.data1.match = "GE" -> item >= t.data2
    [] t.data1.match = "LT" -> item < t.data2
    [] t.data1.match = "MaskHighEqualLow" ->
         LET it == BitAnd(item, t.data2)
         IN Shl(it, HalfBits) = Shl(t.data2, HalfBits)
    [] t.data1.match = "MaskLowEqualHigh" ->
         LET it == BitAnd(item, t.data2)
         IN Shr(it, HalfBits) = Shr(t.data2, HalfBits)
    [] OTHER -> FALSE

doMatch(t, item) ==
  CASE t.data1.match = "Equal" -> item = t.data2
    [] t.data1.match = "Masked" ->
         BitAnd(item, t.data2CompareMask) = BitAnd(t.data2, t.data2CompareMask)
    [] t.data1.match = "GE" -> item >= t.data2
    [] t.data1.match = "LT" -> item < t.data2
    [] t.data1.match = "MaskHighEqualLow" ->
         LET it == BitAnd(item, Shr(t.data2, HalfBits))
         IN Shl(it, HalfBits) = Shl(t.data2, HalfBits)
    [] t.data1.match = "MaskLowEqualHigh" ->
         LET it == BitAnd(item, Shl(t.data2, HalfBits))
         IN Shr(it, HalfBits) = Shr(t.data2, HalfBits)
    [] OTHER -> FALSE

\* matchLdStAddr accepting a load on a store trigger and a store on a load
\* trigger
matchLdStAddrAnyAccess(t, address, timing, isLoad) ==
  IF t.data1.type # "AddrData" THEN FALSE
  ELSE IF ~t.data1.m THEN FALSE
  ELSE IF /\ t.data1.timing = timing
          /\ t.data1.select = "MatchAddress"
          /\ (t.data1.load \/ t.data1.store)
       THEN doMatch(t, address)
       ELSE FALSE

matchLdStAddr(t, address, timing, isLoad) ==
  IF t.data1.type # "AddrData" THEN FALSE
  ELSE IF ~t.data1.m THEN FALSE
  ELSE IF /\ t.data1.timing = timing
          /\ t.data1.select = "MatchAddress"
          /\ ((isLoad /\ t.data1.load) \/ (~isLoad /\ t.data1.store))
       THEN doMatch(t, address)
       ELSE FALSE

matchLdStData(t, value, timing, isLoad) ==
  IF t.data1.type # "AddrData" THEN FALSE
  ELSE IF ~t.data1.m THEN FALSE
  ELSE IF /\ t.data1.timing = timing
          /\ t.data1.select = "MatchData"
          /\ ((isLoad /\ t.data1.load) \/ (~isLoad /\ t.data1.store))
       THEN doMatch(t, value)
       ELSE FALSE

matchInstAddr(t, address, timing) ==
  IF t.data1.type # "AddrData" THEN FALSE
  ELSE IF ~t.data1.m THEN FALSE
  ELSE IF /\ t.data1.timing = timing
          /\ t.data1.select = "MatchAddress"
          /\ t.data1.execute
       THEN doMatch(t, address)
       ELSE FALSE

matchInstOpcode(t, opcode, timing) ==
  IF t.data1.type # "AddrData" THEN FALSE
  ELSE IF ~t.data1.m THEN FALSE
  ELSE IF /\ t.data1.timing = timing
          /\ t.data1.select = "MatchData"
          /\ t.data1.execute
       THEN doMatch(t, opcode)
       ELSE FALSE

----------------------------------------------------------------------------
(* Triggers: the bank.  Trigger k of the code is trigs[k + 1]. *)

\* A bool result as the value of ret
Bool(b) == IF b THEN "true" ELSE "false"

Count(trigs) == Len(trigs)
At(trigs, k) == trigs[k + 1]

\* setChainBounds(b, e) on every trigger j with from <= j < to
SetBoundsIn(trigs, from, to, b, e) ==
  [k \in 1 .. Len(trigs) |->
     IF from <= k - 1 /\ k - 1 < to THEN setChainBounds(trigs[k], b, e) ELSE trigs[k]]

\* PairScan stepping by one: an odd trigger can start a pair
RECURSIVE PairScanEveryIndex(_, _)
PairScanEveryIndex(trigs, i) ==
  IF i >= Count(trigs) THEN trigs
  ELSE IF getChain(At(trigs, i)) /\ i + 1 < Count(trigs)
       THEN PairScanEveryIndex(SetBoundsIn(trigs, i, i + 2, i, i + 2), i + 1)
       ELSE PairScanEveryIndex(trigs, i + 1)

\* paired mode, second loop: i = 0, 2, 4, ...
RECURSIVE PairScan(_, _)
PairScan(trigs, i) ==
  IF i >= Count(trigs) THEN trigs
  ELSE IF getChain(At(trigs, i)) /\ i + 1 < Count(trigs)
       THEN PairScan(SetBoundsIn(trigs, i, i + 2, i, i + 2), i + 2)
       ELSE PairScan(trigs, i + 2)

\* RunScan without the loop that closes the trailing run
RECURSIVE RunScanOpenTail(_, _, _)
RunScanOpenTail(trigs, i, begin) ==
  IF i >= Count(trigs)
  THEN trigs
  ELSE IF ~getChain(At(trigs, i))
       THEN RunScanOpenTail(SetBoundsIn(trigs, begin, i + 1, begin, i + 1), i + 1, i + 1)
       ELSE RunScanOpenTail(trigs, i + 1, begin)

\* run mode: the scan at index i with the current run starting at begin
RECURSIVE RunScan(_, _, _)
RunScan(trigs, i, begin) ==
  IF i >= Count(trigs)
  THEN SetBoundsIn(trigs, begin, Count(trigs), begin, Count(trigs))
  ELSE IF ~getChain(At(trigs, i))
       THEN RunScan(SetBoundsIn(trigs, begin, i + 1, begin, i + 1), i + 1, i + 1)
       ELSE RunScan(trigs, i + 1, begin)

\* defineChainBounds whose run mode ends a run before the trigger with the
\* clear chain bit
RECURSIVE RunScanEndsBefore(_, _, _)
RunScanEndsBefore(trigs, i, begin) ==
  IF i >= Count(trigs)
  THEN SetBoundsIn(trigs, begin, Count(trigs), begin, Count(trigs))
  ELSE IF ~getChain(At(trigs, i))
       THEN RunScanEndsBefore(SetBoundsIn(trigs, begin, i, begin, i), i + 1, i)
       ELSE RunScanEndsBefore(trigs, i + 1, begin)

defineChainBoundsEndsBefore(trigs, pairs) ==
  IF pairs
  THEN PairScan([k \in 1 .. Len(trigs) |-> setChainBounds(trigs[k], k - 1, k)], 0)
  ELSE RunScanEndsBefore(trigs, 0, 0)

defineChainBounds(trigs, pairs) ==
  IF pairs
  THEN PairScan([k \in 1 .. Len(trigs) |-> setChainBounds(trigs[k], k - 1, k)], 0)
  ELSE RunScan(trigs, 0, 0)

\* updateChainHitBit without the timing comparison
updateChainHitBitAnyTiming(trigs, k) ==
  LET trigger == At(trigs, k)
      range == {i \in trigger.chainBegin .. trigger.chainEnd - 1 : TRUE}
  IN IF \E i \in range : i >= Count(trigs)
     THEN <<"out_of_range", trigs>>
     ELSE IF ~(\A i \in range : getLocalHit(At(trigs, i)))
          THEN <<"false", trigs>>
          ELSE <<"true", [j \in 1 .. Len(trigs) |->
                            IF j - 1 \in range THEN setHit(trigs[j], TRUE)
                            ELSE trigs[j]]>>

\* updateChainHitBit setting hit on its argument only
updateChainHitBitSelfOnly(trigs, k) ==
  LET trigger == At(trigs, k)
      timing == getTiming(trigger)
      range == {i \in trigger.chainBegin .. trigger.chainEnd - 1 : TRUE}
  IN IF \E i \in range : i >= Count(trigs)
     THEN <<"out_of_range", trigs>>
     ELSE IF \/ ~(\A i \in range : getLocalHit(At(trigs, i)))
             \/ ~(\A i \in range : timing = getTiming(At(trigs, i)))
          THEN <<"false", trigs>>
          ELSE <<"true", [trigs EXCEPT ![k + 1] = setHit(trigger, TRUE)]>>

\* updateChainHitBit clearing the hit flags of a chain that does not resolve
updateChainHitBitClearsOnFail(trigs, k) ==
  LET trigger == At(trigs, k)
      timing == getTiming(trigger)
      range == {i \in trigger.chainBegin .. trigger.chainEnd - 1 : TRUE}
      resolved == /\ \A i \in range : getLocalHit(At(trigs, i))
                  /\ \A i \in range : timing = getTiming(At(trigs, i))
  IN IF \E i \in range : i >= Count(trigs)
     THEN <<"out_of_range", trigs>>
     ELSE <<Bool(resolved), [j \in 1 .. Len(trigs) |->
                              IF j - 1 \in range THEN setHit(trigs[j], resolved)
                              ELSE trigs[j]]>>

\* updateChainHitBit: <<result, triggers>>; triggers_.at(i) throws
\* std::out_of_range for an index outside the vector
updateChainHitBit(trigs, k) ==
  LET trigger == At(trigs, k)
      timing == getTiming(trigger)
      beginChain == trigger.chainBegin
      endChain == trigger.chainEnd
      range == {i \in beginChain .. endChain - 1 : TRUE}
  IN IF \E i \in range : i >= Count(trigs)
     THEN <<"out_of_range", trigs>>
     ELSE LET chainHit == \A i \in range : getLocalHit(At(trigs, i))
              uniformTiming == \A i \in range : timing = getTiming(At(trigs, i))
          IN IF ~chainHit \/ ~uniformTiming
             THEN <<"false", trigs>>
             ELSE <<"true", [j \in 1 .. Len(trigs) |->
                             IF j - 1 \in range THEN setHit(trigs[j], TRUE)
                             ELSE trigs[j]]>>

\* The match predicate an event-hit function applies
Matches(t, ev) ==
  CASE ev.kind = "ldStAddr" -> matchLdStAddr(t, ev.item, ev.timing, ev.isLoad)
    [] ev.kind = "ldStData" -> matchLdStData(t, ev.item, ev.timing, ev.isLoad)
    [] ev.kind = "instAddr" -> matchInstAddr(t, ev.item, ev.timing)
    [] ev.kind = "instOpcode" -> matchInstOpcode(t, ev.item, ev.timing)

\* EventLoop resolving the chain before it records the local hit
RECURSIVE EventLoopResolveFirst(_, _, _, _, _)
EventLoopResolveFirst(trigs, k, hit, ev, interruptEnabled) ==
  IF k >= Count(trigs) THEN <<Bool(hit), trigs>>
  ELSE LET trigger == At(trigs, k)
       IN IF ~isEnterDebugOnHit(trigger) /\ ~interruptEnabled
          THEN EventLoopResolveFirst(trigs, k + 1, hit, ev, interruptEnabled)
          ELSE IF ~Matches(trigger, ev)
          THEN EventLoopResolveFirst(trigs, k + 1, hit, ev, interruptEnabled)
          ELSE LET upd == updateChainHitBit(trigs, k)
               IN IF upd[1] = "out_of_range" THEN upd
                  ELSE EventLoopResolveFirst(
                         [upd[2] EXCEPT ![k + 1] = setLocalHit(@, TRUE)],
                         k + 1, hit \/ upd[1] = "true", ev, interruptEnabled)

\* EventLoop without the test of isEnterDebugOnHit and interruptEnabled
RECURSIVE EventLoopNoGate(_, _, _, _, _)
EventLoopNoGate(trigs, k, hit, ev, interruptEnabled) ==
  IF k >= Count(trigs) THEN <<Bool(hit), trigs>>
  ELSE LET trigger == At(trigs, k)
       IN IF ~Matches(trigger, ev)
          THEN EventLoopNoGate(trigs, k + 1, hit, ev, interruptEnabled)
          ELSE LET set == [trigs EXCEPT ![k + 1] = setLocalHit(trigger, TRUE)]
                   upd == updateChainHitBit(set, k)
               IN IF upd[1] = "out_of_range" THEN upd
                  ELSE EventLoopNoGate(upd[2], k + 1, hit \/ upd[1] = "true", ev,
                                       interruptEnabled)

\* EventLoop with hit = updateChainHitBit(trigger) in place of if (...) hit = true
RECURSIVE EventLoopLastWins(_, _, _, _, _)
EventLoopLastWins(trigs, k, hit, ev, interruptEnabled) ==
  IF k >= Count(trigs) THEN <<Bool(hit), trigs>>
  ELSE LET trigger == At(trigs, k)
       IN IF ~isEnterDebugOnHit(trigger) /\ ~interruptEnabled
          THEN EventLoopLastWins(trigs, k + 1, hit, ev, interruptEnabled)
          ELSE IF ~Matches(trigger, ev)
          THEN EventLoopLastWins(trigs, k + 1, hit, ev, interruptEnabled)
          ELSE LET set == [trigs EXCEPT ![k + 1] = setLocalHit(trigger, TRUE)]
                   upd == updateChainHitBit(set, k)
               IN IF upd[1] = "out_of_range" THEN upd
                  ELSE EventLoopLastWins(upd[2], k + 1, upd[1] = "true", ev,
                                         interruptEnabled)

\* The loop shared by the four event-hit functions, at trigger k with the
\* result so far: <<result, triggers>>
RECURSIVE EventLoop(_, _, _, _, _)
EventLoop(trigs, k, hit, ev, interruptEnabled) ==
  IF k >= Count(trigs) THEN <<Bool(hit), trigs>>
  ELSE LET trigger == At(trigs, k)
       IN IF ~isEnterDebugOnHit(trigger) /\ ~interruptEnabled
          THEN EventLoop(trigs, k + 1, hit, ev, interruptEnabled)
          ELSE IF ~Matches(trigger, ev)
          THEN EventLoop(trigs, k + 1, hit, ev, interruptEnabled)
          ELSE LET set == [trigs EXCEPT ![k + 1] = setLocalHit(trigger, TRUE)]
                   upd == updateChainHitBit(set, k)
               IN IF upd[1] = "out_of_range" THEN upd
                  ELSE EventLoop(upd[2], k + 1, hit \/ upd[1] = "true", ev,
                                 interruptEnabled)

\* IcountLoop sending an expired count through chain resolution, as the
\* event-hit functions do with a match
RECURSIVE IcountLoopResolvesChain(_, _, _, _)
IcountLoopResolvesChain(trigs, k, hit, interruptEnabled) ==
  IF k >= Count(trigs) THEN <<Bool(hit), trigs>>
  ELSE LET trig == At(trigs, k)
       IN IF ~isEnterDebugOnHit(trig) /\ ~interruptEnabled
          THEN IcountLoopResolvesChain(trigs, k + 1, hit, interruptEnabled)
          ELSE IF isModified(trig)
          THEN IcountLoopResolvesChain(trigs, k + 1, hit, interruptEnabled)
          ELSE LET cd == instCountdown(trig)
               IN IF ~cd[1]
                  THEN IcountLoopResolvesChain([trigs EXCEPT ![k + 1] = cd[2]], k + 1,
                                               hit, interruptEnabled)
                  ELSE LET upd == updateChainHitBit(
                                    [trigs EXCEPT ![k + 1] = setLocalHit(cd[2], TRUE)], k)
                       IN IF upd[1] = "out_of_range" THEN upd
                          ELSE IcountLoopResolvesChain(upd[2], k + 1,
                                                       hit \/ upd[1] = "true",
                                                       interruptEnabled)

\* IcountLoop without the isModified test
RECURSIVE IcountLoopTicksModified(_, _, _, _)
IcountLoopTicksModified(trigs, k, hit, interruptEnabled) ==
  IF k >= Count(trigs) THEN <<Bool(hit), trigs>>
  ELSE LET trig == At(trigs, k)
       IN IF ~isEnterDebugOnHit(trig) /\ ~interruptEnabled
          THEN IcountLoopTicksModified(trigs, k + 1, hit, interruptEnabled)
          ELSE LET cd == instCountdown(trig)
               IN IF ~cd[1]
                  THEN IcountLoopTicksModified([trigs EXCEPT ![k + 1] = cd[2]], k + 1,
                                               hit, interruptEnabled)
                  ELSE IcountLoopTicksModified(
                         [trigs EXCEPT ![k + 1] = setLocalHit(setHit(cd[2], TRUE), TRUE)],
                         k + 1, TRUE, interruptEnabled)

\* The loop of icountTriggerHit: <<result, triggers>>
RECURSIVE IcountLoop(_, _, _, _)
IcountLoop(trigs, k, hit, interruptEnabled) ==
  IF k >= Count(trigs) THEN <<Bool(hit), trigs>>
  ELSE LET trig == At(trigs, k)
       IN IF ~isEnterDebugOnHit(trig) /\ ~interruptEnabled
          THEN IcountLoop(trigs, k + 1, hit, interruptEnabled)
          ELSE IF isModified(trig)
          THEN IcountLoop(trigs, k + 1, hit, interruptEnabled)
          ELSE LET cd == instCountdown(trig)
               IN IF ~cd[1]
                  THEN IcountLoop([trigs EXCEPT ![k + 1] = cd[2]], k + 1, hit,
                                  interruptEnabled)
                  ELSE IcountLoop(
                         [trigs EXCEPT ![k + 1] = setLocalHit(setHit(cd[2], TRUE), TRUE)],
                         k + 1, TRUE, interruptEnabled)

\* std::vector::resize
Resize(trigs, n) ==
  [k \in 1 .. n |-> IF k <= Len(trigs) THEN trigs[k] ELSE DefaultTrigger]

----------------------------------------------------------------------------
(* Inputs explored *)

TimingValues == {"Before", "After"}

\* An enabled address/data match control applying to loads, stores and fetches
AddrCtl(chain, timing, select, action, dmode) ==
  [ZeroData1 EXCEPT !.type = "AddrData", !.m = TRUE, !.chain = chain,
                    !.timing = timing, !.select = select, !.action = action,
                    !.dmode = dmode,
                    !.load = TRUE, !.store = TRUE, !.execute = TRUE]

IcountCtl(count, action) ==
  [ZeroData1 EXCEPT !.type = "InstCount", !.m = TRUE, !.count = count,
                    !.action = action]

\* Spec: construction and the register and configuration operations, on a
\* bank that grows and shrinks; the controls written differ in the chain bit
PlainCtl == AddrCtl(FALSE, "Before", "MatchAddress", "EnterDebug", FALSE)
ChainCtl == AddrCtl(TRUE, "Before", "MatchAddress", "EnterDebug", FALSE)

Data1Inputs == { PlainCtl, ChainCtl }
Data2Inputs == {0}
Data3Inputs == {0}
WriteData3Inputs == {1}
\* The trigger indices of the largest bank: out of range for a smaller one
Indices == 0 .. MaxTriggers - 1

\* The record of a call: its name and the trigger count it found
Called(name) == [name |-> name, n0 |-> Count(triggers)]

----------------------------------------------------------------------------
(* Construction *)

Init ==
  /\ \E count \in 0 .. MaxTriggers :
       triggers = [k \in 1 .. count |-> setChainBounds(DefaultTrigger, k - 1, k)]
  /\ chainPairs \in BOOLEAN
  /\ op = [name |-> "Triggers", n0 |-> 0]
  /\ ret = "void"
  /\ out = <<>>

----------------------------------------------------------------------------
(* Register reads and peeks: const methods, the values go to the caller's
   reference arguments *)

ReadData1(trigger) ==
  /\ op' = Called("readData1")
  /\ UNCHANGED <<triggers, chainPairs>>
  /\ IF trigger >= Count(triggers)
     THEN ret' = "false" /\ UNCHANGED out
     ELSE ret' = "true" /\ out' = <<TrigReadData1(At(triggers, trigger))>>

ReadData2(trigger) ==
  /\ op' = Called("readData2")
  /\ UNCHANGED <<triggers, chainPairs>>
  /\ IF trigger >= Count(triggers)
     THEN ret' = "false" /\ UNCHANGED out
     ELSE ret' = "true" /\ out' = <<TrigReadData2(At(triggers, trigger))>>

ReadData3(trigger) ==
  /\ op' = Called("readData3")
  /\ UNCHANGED <<triggers, chainPairs>>
  /\ IF trigger >= Count(triggers)
     THEN ret' = "false" /\ UNCHANGED out
     ELSE ret' = "true" /\ out' = <<TrigReadData3(At(triggers, trigger))>>

\* peek(trigger, data1, data2, data3)
Peek(trigger) ==
  /\ op' = Called("peek")
  /\ UNCHANGED <<triggers, chainPairs>>
  /\ IF trigger >= Count(triggers)
     THEN ret' = "false" /\ UNCHANGED out
     ELSE LET r == TrigPeek(At(triggers, trigger))
          IN ret' = Bool(r[1]) /\ out' = r[2]

\* peek(trigger, data1, data2, data3, wm1, wm2, wm3, pm1, pm2, pm3)
PeekAll(trigger) ==
  /\ op' = Called("peekAll")
  /\ UNCHANGED <<triggers, chainPairs>>
  /\ IF trigger >= Count(triggers)
     THEN ret' = "false" /\ UNCHANGED out
     ELSE LET r == TrigPeekAll(At(triggers, trigger))
          IN ret' = Bool(r[1]) /\ out' = r[2]

----------------------------------------------------------------------------
(* Register writes *)

WriteData1(trigIx, debugMode, value) ==
  /\ op' = Called("writeData1")
  /\ UNCHANGED <<chainPairs, out>>
  /\ IF trigIx >= Count(triggers)
     THEN ret' = "false" /\ UNCHANGED triggers
     ELSE LET trig == At(triggers, trigIx)
              prevChain == getChain(trig)
              w == TrigWriteData1(trig, debugMode, value)
              written == [triggers EXCEPT ![trigIx + 1] = w[2]]
              newChain == getChain(w[2])
          IN IF ~w[1]
             THEN ret' = "false" /\ UNCHANGED triggers
             ELSE /\ ret' = "true"
                  /\ triggers' = IF prevChain # newChain
                                 THEN defineChainBounds(written, chainPairs)
                                 ELSE written

WriteData2(trigger, debugMode, value) ==
  /\ op' = Called("writeData2")
  /\ UNCHANGED <<chainPairs, out>>
  /\ IF trigger >= Count(triggers)
     THEN ret' = "false" /\ UNCHANGED triggers
     ELSE LET w == TrigWriteData2(At(triggers, trigger), debugMode, value)
          IN /\ ret' = Bool(w[1])
             /\ triggers' = [triggers EXCEPT ![trigger + 1] = w[2]]

\* writeData3 storing the value, as the other two writes do
WriteData3Stores(trigger, debugMode, value) ==
  /\ op' = Called("writeData3")
  /\ UNCHANGED <<chainPairs, out>>
  /\ IF trigger >= Count(triggers)
     THEN ret' = "false" /\ UNCHANGED triggers
     ELSE /\ ret' = "true"
          /\ triggers' = [triggers EXCEPT ![trigger + 1] = TrigPokeData3(@, value)]

WriteData3(trigger, debugMode, value) ==
  /\ op' = Called("writeData3")
  /\ ret' = "false"
  /\ UNCHANGED <<triggers, chainPairs, out>>

----------------------------------------------------------------------------
(* Pokes *)

Poke(trigger, v1, v2, v3) ==
  /\ op' = Called("poke")
  /\ UNCHANGED <<chainPairs, out>>
  /\ IF trigger >= Count(triggers)
     THEN ret' = "false" /\ UNCHANGED triggers
     ELSE /\ ret' = "true"
          /\ triggers' =
               [triggers EXCEPT ![trigger + 1] =
                  TrigPokeData3(TrigPokeData2(TrigPokeData1(@, v1), v2), v3)]

PokeData1(trigger, val) ==
  /\ op' = Called("pokeData1")
  /\ UNCHANGED <<chainPairs, out>>
  /\ IF trigger >= Count(triggers)
     THEN ret' = "false" /\ UNCHANGED triggers
     ELSE LET trig == At(triggers, trigger)
              prevChain == getChain(trig)
              poked == [triggers EXCEPT ![trigger + 1] = TrigPokeData1(trig, val)]
              newChain == getChain(At(poked, trigger))
          IN /\ ret' = "true"
             /\ triggers' = IF prevChain # newChain
                            THEN defineChainBounds(poked, chainPairs)
                            ELSE poked

\* pokeData2 without the index test: triggers_.at(trigger) throws
PokeData2Unchecked(trigger, val) ==
  /\ op' = Called("pokeData2")
  /\ UNCHANGED <<chainPairs, out>>
  /\ IF trigger >= Count(triggers)
     THEN ret' = "out_of_range" /\ UNCHANGED triggers
     ELSE /\ ret' = "true"
          /\ triggers' = [triggers EXCEPT ![trigger + 1] = TrigPokeData2(@, val)]

PokeData2(trigger, val) ==
  /\ op' = Called("pokeData2")
  /\ UNCHANGED <<chainPairs, out>>
  /\ IF trigger >= Count(triggers)
     THEN ret' = "false" /\ UNCHANGED triggers
     ELSE /\ ret' = "true"
          /\ triggers' = [triggers EXCEPT ![trigger + 1] = TrigPokeData2(@, val)]

PokeData3(trigger, val) ==
  /\ op' = Called("pokeData3")
  /\ UNCHANGED <<chainPairs, out>>
  /\ IF trigger >= Count(triggers)
     THEN ret' = "false" /\ UNCHANGED triggers
     ELSE /\ ret' = "true"
          /\ triggers' = [triggers EXCEPT ![trigger + 1] = TrigPokeData3(@, val)]

----------------------------------------------------------------------------
(* config and reset *)

\* ConfigResult with the compare mask defined on trigger 0 instead of the
\* configured trigger
ConfigResultFirst(trigs, pairs, trigger, reset1, reset2, reset3, wm1, wm2, wm3, pm1, pm2, pm3) ==
  LET resized == IF trigger <= Count(trigs) THEN Resize(trigs, trigger + 1) ELSE trigs
  IN IF trigger >= Count(resized)
     THEN <<"out_of_range", resized>>
     ELSE LET c1 == configData1(At(resized, trigger), reset1, wm1, pm1)
              c2 == configData2(c1, reset2, wm2, pm2)
              c3 == configData3(c2, reset3, wm3, pm3)
              cfg == [resized EXCEPT ![trigger + 1] = c3]
              w == TrigWriteData2(At(cfg, 0), TRUE, reset2)[2]
          IN <<"true", defineChainBounds([cfg EXCEPT ![1] = w], pairs)>>

\* The bank after config and its result; triggers_.at(trigger) throws for an
\* index the resize has not made valid
ConfigResult(trigs, pairs, trigger, reset1, reset2, reset3, wm1, wm2, wm3, pm1, pm2, pm3) ==
  LET resized == IF trigger <= Count(trigs) THEN Resize(trigs, trigger + 1) ELSE trigs
  IN IF trigger >= Count(resized)
     THEN <<"out_of_range", resized>>
     ELSE LET c1 == configData1(At(resized, trigger), reset1, wm1, pm1)
              c2 == configData2(c1, reset2, wm2, pm2)
              c3 == configData3(c2, reset3, wm3, pm3)
              w == TrigWriteData2(c3, TRUE, reset2)[2]
          IN <<"true", defineChainBounds([resized EXCEPT ![trigger + 1] = w], pairs)>>

Config(trigger, reset1, reset2, reset3, wm1, wm2, wm3, pm1, pm2, pm3) ==
  LET r == ConfigResult(triggers, chainPairs, trigger, reset1, reset2, reset3,
                        wm1, wm2, wm3, pm1, pm2, pm3)
  IN /\ op' = Called("config")
     /\ ret' = r[1]
     /\ triggers' = r[2]
     /\ UNCHANGED <<chainPairs, out>>

\* config as the configuration loader calls it for a trigger without reset
\* values and with every data1 and data2 bit writable
ConfigStep(trigger) ==
  Config(trigger, ZeroData1, 0, 0, Data1Fields, AllOnes, 0, Data1Fields, AllOnes, 0)

Reset ==
  /\ op' = Called("reset")
  /\ ret' = "void"
  /\ triggers' = defineChainBounds([k \in 1 .. Len(triggers) |-> TrigReset(triggers[k])],
                                   chainPairs)
  /\ UNCHANGED <<chainPairs, out>>

----------------------------------------------------------------------------
(* Events *)

EventHit(ev, interruptEnabled) ==
  LET r == EventLoop(triggers, 0, FALSE, ev, interruptEnabled)
  IN /\ op' = Called(ev.kind)
     /\ ret' = r[1]
     /\ triggers' = r[2]
     /\ UNCHANGED <<chainPairs, out>>

LdStAddrTriggerHit(address, timing, isLoad, interruptEnabled) ==
  EventHit([kind |-> "ldStAddr", item |-> address, timing |-> timing,
            isLoad |-> isLoad], interruptEnabled)

LdStDataTriggerHit(value, timing, isLoad, interruptEnabled) ==
  EventHit([kind |-> "ldStData", item |-> value, timing |-> timing,
            isLoad |-> isLoad], interruptEnabled)

InstAddrTriggerHit(address, timing, interruptEnabled) ==
  EventHit([kind |-> "instAddr", item |-> address, timing |-> timing,
            isLoad |-> FALSE], interruptEnabled)

InstOpcodeTriggerHit(opcode, timing, interruptEnabled) ==
  EventHit([kind |-> "instOpcode", item |-> opcode, timing |-> timing,
            isLoad |-> FALSE], interruptEnabled)

IcountTriggerHit(interruptEnabled) ==
  LET r == IcountLoop(triggers, 0, FALSE, interruptEnabled)
  IN /\ op' = Called("icount")
     /\ ret' = r[1]
     /\ triggers' = r[2]
     /\ UNCHANGED <<chainPairs, out>>

----------------------------------------------------------------------------

Next ==
  \/ \E i \in Indices, d \in BOOLEAN, v \in Data1Inputs : WriteData1(i, d, v)
  \/ \E i \in Indices, d \in BOOLEAN, v \in Data2Inputs : WriteData2(i, d, v)
  \/ \E i \in Indices, d \in BOOLEAN, v \in WriteData3Inputs : WriteData3(i, d, v)
  \/ \E i \in Indices, v1 \in Data1Inputs, v2 \in Data2Inputs, v3 \in Data3Inputs :
       Poke(i, v1, v2, v3)
  \/ \E i \in Indices, v \in Data1Inputs : PokeData1(i, v)
  \/ \E i \in Indices, v \in Data2Inputs : PokeData2(i, v)
  \/ \E i \in Indices, v \in Data3Inputs : PokeData3(i, v)
  \/ \E i \in Indices : ConfigStep(i)
  \/ Reset

Spec == Init /\ [][Next]_vars

----------------------------------------------------------------------------
(* SpecChain: defineChainBounds on every vector of chain bits.  The bank
   starts as the constructor leaves it, its chain bits set by three-value
   pokes, which do not recompute the ranges. *)

MaxChainLen == 5

InitChain ==
  /\ \E count \in 0 .. MaxChainLen :
       \E bits \in [1 .. count -> BOOLEAN] :
         triggers = [k \in 1 .. count |->
                       setChainBounds(
                         TrigPokeData1(DefaultTrigger,
                                       IF bits[k] THEN ChainCtl ELSE PlainCtl),
                         k - 1, k)]
  /\ chainPairs \in BOOLEAN
  /\ op = [name |-> "poke", n0 |-> Count(triggers)]
  /\ ret = "true"
  /\ out = <<>>

DefineChainBounds ==
  /\ op.name = "poke"
  /\ op' = Called("defineChainBounds")
  /\ ret' = "void"
  /\ triggers' = defineChainBounds(triggers, chainPairs)
  /\ UNCHANGED <<chainPairs, out>>

NextChain == DefineChainBounds

SpecChain == InitChain /\ [][NextChain]_vars

----------------------------------------------------------------------------
(* SpecEvt: the event calls on a configured bank.  The bank starts with its
   registers poked (pokeData1 recomputes the ranges), an instruction count
   possibly written by the current instruction (modified), before the first
   event. *)

\* Chained address and data matches, one of them after the access and one
\* held back while interrupts are disabled, an address match outside any
\* chain, and an instruction count
EvtData1 ==
  { AddrCtl(TRUE, "Before", "MatchAddress", "EnterDebug", FALSE),
    AddrCtl(TRUE, "Before", "MatchData", "RaiseBreak", FALSE),
    AddrCtl(TRUE, "After", "MatchAddress", "EnterDebug", FALSE),
    AddrCtl(FALSE, "Before", "MatchAddress", "EnterDebug", FALSE),
    IcountCtl(1, "EnterDebug") }

\* The events: a load or a fetch of address, value or opcode 0, which every
\* enabled control of the right select and timing matches
EvtItems == {0}
EvtLoads == {TRUE}

InitEvt ==
  /\ chainPairs \in BOOLEAN
  /\ \E count \in 1 .. MaxTriggers :
       \E ctl \in [1 .. count -> EvtData1], written \in [1 .. count -> BOOLEAN] :
         /\ \A k \in 1 .. count : written[k] => ctl[k].type = "InstCount"
         /\ triggers = defineChainBounds(
                         [k \in 1 .. count |->
                            [TrigPokeData1(DefaultTrigger, ctl[k])
                               EXCEPT !.modified = written[k]]],
                         chainPairs)
  /\ op = [name |-> "pokeData1", n0 |-> Count(triggers)]
  /\ ret = "true"
  /\ out = <<>>

NextEvt ==
  \/ \E a \in EvtItems, t \in TimingValues, l \in EvtLoads, ie \in BOOLEAN :
       LdStAddrTriggerHit(a, t, l, ie)
  \/ \E a \in EvtItems, t \in TimingValues, l \in EvtLoads, ie \in BOOLEAN :
       LdStDataTriggerHit(a, t, l, ie)
  \/ \E a \in EvtItems, t \in TimingValues, ie \in BOOLEAN : InstAddrTriggerHit(a, t, ie)
  \/ \E a \in EvtItems, t \in TimingValues, ie \in BOOLEAN : InstOpcodeTriggerHit(a, t, ie)
  \/ \E ie \in BOOLEAN : IcountTriggerHit(ie)

SpecEvt == InitEvt /\ [][NextEvt]_vars

----------------------------------------------------------------------------
(* SpecGate: the event calls on a bank of triggers that enter debug mode on a
   hit and triggers that raise a breakpoint exception, with interrupts
   enabled and disabled *)

GateData1 ==
  { AddrCtl(TRUE, "Before", "MatchAddress", "RaiseBreak", FALSE),
    AddrCtl(TRUE, "Before", "MatchAddress", "EnterDebug", FALSE),
    IcountCtl(1, "RaiseBreak"),
    IcountCtl(1, "EnterDebug") }

InitGate ==
  /\ chainPairs \in BOOLEAN
  /\ \E count \in 1 .. MaxTriggers :
       \E ctl \in [1 .. count -> GateData1] :
         triggers = defineChainBounds(
                      [k \in 1 .. count |-> TrigPokeData1(DefaultTrigger, ctl[k])],
                      chainPairs)
  /\ op = [name |-> "pokeData1", n0 |-> Count(triggers)]
  /\ ret = "true"
  /\ out = <<>>

SpecGate == InitGate /\ [][NextEvt]_vars

----------------------------------------------------------------------------
(* SpecMatch: one call of the comparator or of a match predicate on a trigger
   whose data1 and data2 were poked: every match mode with every data2, and
   every combination of the fields the predicates test *)

MatchModes ==
  {"Equal", "Masked", "GE", "LT", "MaskHighEqualLow", "MaskLowEqualHigh"}

\* Enabled controls of every match mode, one with a value of the match field
\* that names no mode
ModeData1 ==
  { [AddrCtl(FALSE, "Before", "MatchAddress", "EnterDebug", FALSE) EXCEPT !.match = mm] :
      mm \in MatchModes \cup {"Other"} }

\* Controls with every combination of type, enable, timing, select and the
\* load, store and execute bits
GuardData1 ==
  { [ZeroData1 EXCEPT !.type = ty, !.m = m, !.timing = tm, !.select = sel,
                      !.load = ld, !.store = st, !.execute = ex] :
      ty \in {"AddrData", "InstCount", "None"}, m \in BOOLEAN, tm \in TimingValues,
      sel \in {"MatchAddress", "MatchData"}, ld \in BOOLEAN, st \in BOOLEAN,
      ex \in BOOLEAN }

InitMatch ==
  /\ chainPairs \in BOOLEAN
  /\ \E ctl \in ModeData1 \cup GuardData1, d2 \in URV :
       /\ ctl \in GuardData1 => d2 = 0
       /\ triggers = <<TrigPokeData2(
                         TrigPokeData1(setChainBounds(DefaultTrigger, 0, 1), ctl), d2)>>
  /\ op = [name |-> "poke", n0 |-> Count(triggers)]
  /\ ret = "true"
  /\ out = <<>>

\* The record of a call of a Trigger method with its arguments
MatchCalled(name, item, timing, isLoad) ==
  [name |-> name, n0 |-> Count(triggers), item |-> item, timing |-> timing,
   isLoad |-> isLoad]

DoMatch(item) ==
  /\ op.name = "poke"
  /\ op' = [name |-> "doMatch", n0 |-> Count(triggers), item |-> item]
  /\ ret' = Bool(doMatch(At(triggers, 0), item))
  /\ UNCHANGED <<triggers, chainPairs, out>>

MatchLdStAddr(address, timing, isLoad) ==
  /\ op.name = "poke"
  /\ op' = MatchCalled("matchLdStAddr", address, timing, isLoad)
  /\ ret' = Bool(matchLdStAddr(At(triggers, 0), address, timing, isLoad))
  /\ UNCHANGED <<triggers, chainPairs, out>>

MatchLdStData(value, timing, isLoad) ==
  /\ op.name = "poke"
  /\ op' = MatchCalled("matchLdStData", value, timing, isLoad)
  /\ ret' = Bool(matchLdStData(At(triggers, 0), value, timing, isLoad))
  /\ UNCHANGED <<triggers, chainPairs, out>>

MatchInstAddr(address, timing) ==
  /\ op.name = "poke"
  /\ op' = MatchCalled("matchInstAddr", address, timing, FALSE)
  /\ ret' = Bool(matchInstAddr(At(triggers, 0), address, timing))
  /\ UNCHANGED <<triggers, chainPairs, out>>

MatchInstOpcode(opcode, timing) ==
  /\ op.name = "poke"
  /\ op' = MatchCalled("matchInstOpcode", opcode, timing, FALSE)
  /\ ret' = Bool(matchInstOpcode(At(triggers, 0), opcode, timing))
  /\ UNCHANGED <<triggers, chainPairs, out>>

NextMatch ==
  \/ \E item \in URV : DoMatch(item)
  \/ \E a \in URV, t \in TimingValues, l \in BOOLEAN : MatchLdStAddr(a, t, l)
  \/ \E v \in URV, t \in TimingValues, l \in BOOLEAN : MatchLdStData(v, t, l)
  \/ \E a \in URV, t \in TimingValues : MatchInstAddr(a, t)
  \/ \E o \in URV, t \in TimingValues : MatchInstOpcode(o, t)

SpecMatch == InitMatch /\ [][NextMatch]_vars

----------------------------------------------------------------------------
(* SpecCfg: config on every bank of plain and chained address matches with
   any hit flags, its ranges recomputed (pokeData1) or left as constructed
   (three-value poke) *)

InitCfg ==
  /\ chainPairs \in BOOLEAN
  /\ \E count \in 0 .. MaxTriggers :
       \E ctl \in [1 .. count -> Data1Inputs], lh \in [1 .. count -> BOOLEAN],
          h \in [1 .. count -> BOOLEAN], recomputed \in BOOLEAN :
         LET poked == [k \in 1 .. count |->
                         [setChainBounds(TrigPokeData1(DefaultTrigger, ctl[k]), k - 1, k)
                            EXCEPT !.localHit = lh[k], !.hit = h[k]]]
         IN triggers = IF recomputed THEN defineChainBounds(poked, chainPairs)
                       ELSE poked
  /\ op = [name |-> "poke", n0 |-> Count(triggers)]
  /\ ret = "true"
  /\ out = <<>>

NextCfg == \E i \in Indices : ConfigStep(i)

SpecCfg == InitCfg /\ [][NextCfg]_vars

----------------------------------------------------------------------------
(* SpecResolve: updateChainHitBit on every bank of chained address matches
   with any local hits *)

ResolveData1 ==
  { AddrCtl(c, t, "MatchAddress", "EnterDebug", FALSE) :
      c \in BOOLEAN, t \in TimingValues }

InitResolve ==
  /\ chainPairs \in BOOLEAN
  /\ \E count \in 1 .. MaxTriggers :
       \E ctl \in [1 .. count -> ResolveData1], lh \in [1 .. count -> BOOLEAN],
          h \in [1 .. count -> BOOLEAN] :
         triggers = defineChainBounds(
                      [k \in 1 .. count |->
                         [TrigPokeData1(DefaultTrigger, ctl[k])
                            EXCEPT !.localHit = lh[k], !.hit = h[k]]],
                      chainPairs)
  /\ op = [name |-> "pokeData1", n0 |-> Count(triggers)]
  /\ ret = "true"
  /\ out = <<>>

UpdateChainHitBit(k) ==
  LET r == updateChainHitBit(triggers, k)
  IN /\ k < Count(triggers)
     /\ op' = Called("updateChainHitBit")
     /\ ret' = r[1]
     /\ triggers' = r[2]
     /\ UNCHANGED <<chainPairs, out>>

NextResolve == \E k \in Indices : UpdateChainHitBit(k)

SpecResolve == InitResolve /\ [][NextResolve]_vars

----------------------------------------------------------------------------
(* SpecIdx: one call of an index-taking operation, with an index inside or
   outside the bank, on a bank whose registers were set by three-value pokes *)

\* A control only debug mode may write
DmodeCtl == AddrCtl(FALSE, "Before", "MatchAddress", "EnterDebug", TRUE)

IdxData1 == Data1Inputs \cup {DmodeCtl}
IdxData3 == {0, 1}
\* The indices of the largest bank and the first one beyond it
IdxIndices == 0 .. MaxTriggers

InitIdx ==
  /\ chainPairs \in BOOLEAN
  /\ \E count \in 0 .. MaxTriggers :
       \E ctl \in [1 .. count -> IdxData1], d3 \in [1 .. count -> IdxData3] :
         triggers = [k \in 1 .. count |->
                       TrigPokeData3(
                         TrigPokeData1(setChainBounds(DefaultTrigger, k - 1, k), ctl[k]),
                         d3[k])]
  /\ op = [name |-> "poke", n0 |-> Count(triggers)]
  /\ ret = "true"
  /\ out = <<>>

\* A call of an operation that takes the trigger index, with any other arguments
IndexCall(i) ==
  \/ ReadData1(i)
  \/ ReadData2(i)
  \/ ReadData3(i)
  \/ Peek(i)
  \/ PeekAll(i)
  \/ \E d \in BOOLEAN, v \in Data1Inputs : WriteData1(i, d, v)
  \/ \E d \in BOOLEAN, v \in Data2Inputs : WriteData2(i, d, v)
  \/ \E d \in BOOLEAN, v \in IdxData3 : WriteData3(i, d, v)
  \/ \E v1 \in Data1Inputs, v2 \in Data2Inputs, v3 \in IdxData3 : Poke(i, v1, v2, v3)
  \/ \E v \in Data1Inputs : PokeData1(i, v)
  \/ \E v \in Data2Inputs : PokeData2(i, v)
  \/ \E v \in IdxData3 : PokeData3(i, v)

NextIdx == op.name = "poke" /\ \E i \in IdxIndices : IndexCall(i)

SpecIdx == InitIdx /\ [][NextIdx]_vars

----------------------------------------------------------------------------
(* Chain ranges as a function of the chain bits *)

ChainBit(trigs, k) == getChain(At(trigs, k))

Min(S) == CHOOSE x \in S : \A y \in S : x <= y
Max(S) == CHOOSE x \in S : \A y \in S : x >= y

\* Run mode: the maximal run around trigger i, ended by the first clear chain
\* bit at or after i, or by the end of the bank
RunRange(trigs, i) ==
  LET clearBefore == {k \in 0 .. i - 1 : ~ChainBit(trigs, k)}
      clearFrom == {k \in i .. Count(trigs) - 1 : ~ChainBit(trigs, k)}
  IN <<IF clearBefore = {} THEN 0 ELSE Max(clearBefore) + 1,
       IF clearFrom = {} THEN Count(trigs) ELSE Min(clearFrom) + 1>>

\* Paired mode: an even trigger with its chain bit set pairs with its successor
PairRange(trigs, i) ==
  LET even == i - (i % 2)
  IN IF ChainBit(trigs, even) /\ even + 1 < Count(trigs)
     THEN <<even, even + 2>>
     ELSE <<i, i + 1>>

RangeOf(t) == <<t.chainBegin, t.chainEnd>>

\* Every chain range is the one the chain bits give
RangesFresh(trigs, pairs) ==
  \A i \in 0 .. Count(trigs) - 1 :
    RangeOf(At(trigs, i)) = IF pairs THEN PairRange(trigs, i) ELSE RunRange(trigs, i)

----------------------------------------------------------------------------
(* Claims on the register and configuration operations (Spec, SpecCfg) *)

\* C1: in run mode, after any sequence of bank operations, every trigger's
\* chain range is the range the current chain bits give.
C1_RangesFollowChainBits ==
  ~chainPairs => RangesFresh(triggers, FALSE)

\* C2: in every reachable state and in either chaining mode the chain ranges
\* partition the triggers: 0 <= begin <= i < end <= count for every trigger i,
\* every member of [begin, end) has the same range, and the ranges of two
\* triggers are equal or disjoint.
C2_RangesPartition ==
  /\ \A i \in 0 .. Count(triggers) - 1 :
       LET t == At(triggers, i)
       IN /\ 0 <= t.chainBegin /\ t.chainBegin <= i
          /\ i < t.chainEnd /\ t.chainEnd <= Count(triggers)
          /\ \A j \in t.chainBegin .. t.chainEnd - 1 :
               RangeOf(At(triggers, j)) = RangeOf(t)
  /\ \A i, j \in 0 .. Count(triggers) - 1 :
       LET a == At(triggers, i)
           b == At(triggers, j)
       IN RangeOf(a) = RangeOf(b) \/ a.chainEnd <= b.chainBegin
          \/ b.chainEnd <= a.chainBegin

\* A bank of three with a chain of two and a singleton, left by config
C2_Witness ==
  /\ Count(triggers) >= 3
  /\ \E i, j \in 0 .. Count(triggers) - 1 :
       /\ At(triggers, i).chainEnd - At(triggers, i).chainBegin = 2
       /\ RangeOf(At(triggers, j)) # RangeOf(At(triggers, i))
  /\ op.name = "config"

\* The registers, masks and flags of a trigger, its chain range left out
Unranged(t) == [t EXCEPT !.chainBegin = 0, !.chainEnd = 0]

\* C9 as stated: config with index = count grows the bank by one trigger and
\* leaves every existing trigger unchanged, chain range included.
C9_ConfigGrowKeepsAll ==
  [][ConfigStep(Count(triggers)) =>
       /\ Count(triggers') = Count(triggers) + 1
       /\ \A k \in 1 .. Len(triggers) : triggers'[k] = triggers[k]]_vars

\* C9 amended: config with index = count grows the bank by one trigger and
\* leaves the registers, masks and hit flags of every existing trigger
\* unchanged; the chain ranges are recomputed from the chain bits of the grown
\* bank.
C9_ConfigGrowKeepsRegisters ==
  [][ConfigStep(Count(triggers)) =>
       /\ ret' = "true"
       /\ Count(triggers') = Count(triggers) + 1
       /\ \A k \in 1 .. Len(triggers) : Unranged(triggers'[k]) = Unranged(triggers[k])
       /\ RangesFresh(triggers', chainPairs)]_vars

\* config has grown the bank and the trailing run, whose first member had hit,
\* now ends behind the new trigger
C9_Witness ==
  /\ op.name = "config" /\ ret = "true"
  /\ op.n0 >= 1 /\ Count(triggers) = op.n0 + 1
  /\ At(triggers, op.n0 - 1).chainEnd = Count(triggers)
  /\ At(triggers, op.n0 - 1).hit

\* C10: after config(index, ...) has returned, the trigger count is
\* max(previous count, index + 1): no trigger is removed, and the triggers
\* other than the configured one keep their register values.
C10_ConfigOnlyGrows ==
  [][\A i \in Indices : ConfigStep(i) /\ ret' = "true" =>
       /\ Count(triggers') = Max({Count(triggers), i + 1})
       /\ \A k \in 0 .. Count(triggers) - 1 :
            k # i => /\ k < Count(triggers')
                     /\ At(triggers', k).data1 = At(triggers, k).data1
                     /\ At(triggers', k).data2 = At(triggers, k).data2
                     /\ At(triggers', k).data3 = At(triggers, k).data3]_vars

----------------------------------------------------------------------------
(* Claims on the events (SpecEvt) and on chain resolution (SpecResolve) *)

EventKinds == {"ldStAddr", "ldStData", "instAddr", "instOpcode"}

\* The calls of the four event-hit functions
EventCalls ==
  [kind : {"ldStAddr", "ldStData"}, item : EvtItems, timing : TimingValues,
   isLoad : EvtLoads]
    \cup [kind : {"instAddr", "instOpcode"}, item : EvtItems, timing : TimingValues,
          isLoad : {FALSE}]

\* The members of trigger i's chain range
Members(trigs, i) == At(trigs, i).chainBegin .. At(trigs, i).chainEnd - 1

\* Every member of trigger i's chain range has localHit and i's timing
ChainSatisfied(trigs, i) ==
  \A j \in Members(trigs, i) :
    At(trigs, j).localHit /\ getTiming(At(trigs, j)) = getTiming(At(trigs, i))

\* Trigger i passes the interrupt gate and matches the event
Evaluated(trigs, i, ev, interruptEnabled) ==
  /\ isEnterDebugOnHit(At(trigs, i)) \/ interruptEnabled
  /\ Matches(At(trigs, i), ev)

\* C3 as stated: in every reachable state a trigger's hit flag is true only
\* if every member of its chain range has localHit and all members have the
\* same timing.
C3_HitOnlyWithChain ==
  \A i \in 0 .. Count(triggers) - 1 :
    At(triggers, i).hit => ChainSatisfied(triggers, i)

\* C3 amended: a call of one of the four event-hit functions turns a
\* trigger's hit flag from false to true only if, when the call returns,
\* every member of that trigger's chain range has localHit and all members
\* have the same timing.
C3_EventSetsHitOnlyWithChain ==
  [][\A ev \in EventCalls, ie \in BOOLEAN :
       (ev.kind = op'.name /\ EventHit(ev, ie)) =>
         \A i \in 0 .. Count(triggers) - 1 :
           (At(triggers', i).hit /\ ~At(triggers, i).hit)
             => ChainSatisfied(triggers', i)]_vars

\* An event-hit call has resolved a chain of at least two members
C3_Witness ==
  /\ op.name \in EventKinds /\ ret = "true"
  /\ \E i \in 0 .. Count(triggers) - 1 :
       /\ At(triggers, i).chainEnd - At(triggers, i).chainBegin >= 2
       /\ \A j \in Members(triggers, i) : At(triggers, j).hit /\ At(triggers, j).localHit

\* C4: updateChainHitBit(trigger) returns true iff every member of the
\* trigger's chain range has localHit and the trigger's timing; on true every
\* member has hit afterwards, on false no hit flag changes; nothing but hit
\* flags changes in either case.
C4_UpdateChainHitBit ==
  [][\A k \in Indices :
       UpdateChainHitBit(k) =>
         /\ ret' = Bool(ChainSatisfied(triggers, k))
         /\ ret' = "true" => \A j \in Members(triggers, k) : At(triggers', j).hit
         /\ ret' = "false" => triggers' = triggers
         /\ Count(triggers') = Count(triggers)
         /\ \A j \in 0 .. Count(triggers) - 1 :
              [At(triggers', j) EXCEPT !.hit = FALSE]
                = [At(triggers, j) EXCEPT !.hit = FALSE]]_vars

\* updateChainHitBit has returned true for a chain of at least two members,
\* all of which have hit
C4_Witness ==
  /\ op.name = "updateChainHitBit" /\ ret = "true"
  /\ \E i \in 0 .. Count(triggers) - 1 :
       /\ At(triggers, i).chainEnd - At(triggers, i).chainBegin >= 2
       /\ \A j \in Members(triggers, i) : At(triggers, j).hit

\* C5: an event-hit function returns true iff, in that call, some trigger
\* passed the interrupt gate, matched the event, and its chain then resolved
\* (all members localHit, uniform timing); without a match in the call the
\* result is false, whatever localHit the chains had before.
C5_EventResult ==
  [][\A ev \in EventCalls, ie \in BOOLEAN :
       (ev.kind = op'.name /\ EventHit(ev, ie)) =>
         /\ ret' = Bool(\E i \in 0 .. Count(triggers) - 1 :
                          /\ Evaluated(triggers, i, ev, ie)
                          /\ \A j \in Members(triggers, i) :
                               /\ getTiming(At(triggers, j)) = getTiming(At(triggers, i))
                               /\ \/ At(triggers, j).localHit
                                  \/ j <= i /\ Evaluated(triggers, j, ev, ie))
         /\ (\A i \in 0 .. Count(triggers) - 1 : ~Evaluated(triggers, i, ev, ie))
              => ret' = "false"]_vars

\* An event-hit call returned true for a resolved chain while another trigger
\* keeps a localHit whose chain has not resolved
C5_Witness ==
  /\ op.name \in EventKinds /\ ret = "true"
  /\ \E i, j \in 0 .. Count(triggers) - 1 :
       /\ At(triggers, i).hit /\ At(triggers, i).localHit
       /\ At(triggers, j).localHit /\ ~At(triggers, j).hit

\* C8: icountTriggerHit skips a trigger whose isModified() is true: the call
\* changes nothing of it (hit, localHit, countdown), and the call returns true
\* only for an unmodified trigger whose countdown expired.
C8_IcountSkipsModified ==
  [][\A ie \in BOOLEAN :
       IcountTriggerHit(ie) =>
         /\ \A k \in 1 .. Len(triggers) :
              isModified(triggers[k]) => triggers'[k] = triggers[k]
         /\ ret' = "true" =>
              \E k \in 1 .. Len(triggers) :
                /\ ~isModified(triggers[k])
                /\ isEnterDebugOnHit(triggers[k]) \/ ie
                /\ triggers[k].data1.type = "InstCount"
                /\ triggers[k].data1.count = 1
                /\ triggers'[k].hit /\ triggers'[k].localHit]_vars

\* After icountTriggerHit a modified instruction count that passes the
\* interrupt gate still stands one tick before zero, without hit or localHit
C8_Witness ==
  /\ op.name = "icount"
  /\ \E k \in 1 .. Len(triggers) :
       /\ isModified(triggers[k])
       /\ isEnterDebugOnHit(triggers[k])
       /\ triggers[k].data1.type = "InstCount"
       /\ triggers[k].data1.count = 1
       /\ ~triggers[k].hit /\ ~triggers[k].localHit

----------------------------------------------------------------------------
(* Claims on defineChainBounds (SpecChain) *)

ChainBits(trigs) == [k \in 1 .. Len(trigs) |-> getChain(trigs[k])]
Ranges(trigs) == [k \in 1 .. Len(trigs) |-> RangeOf(trigs[k])]

\* C6: in run mode defineChainBounds gives each trigger the maximal run that
\* contains it, a run ending at and including the first trigger whose chain
\* bit is clear, the trailing run ending at the end of the bank; chain bits
\* [1,1,0,1,0] give [0,3) to triggers 0-2 and [3,5) to triggers 3-4.
C6_RunMode ==
  (op.name = "defineChainBounds" /\ ~chainPairs) =>
    /\ \A i \in 0 .. Count(triggers) - 1 :
         RangeOf(At(triggers, i)) = RunRange(triggers, i)
    /\ ChainBits(triggers) = <<TRUE, TRUE, FALSE, TRUE, FALSE>> =>
         Ranges(triggers) = <<<<0, 3>>, <<0, 3>>, <<0, 3>>, <<3, 5>>, <<3, 5>>>>

C6_Witness ==
  /\ op.name = "defineChainBounds" /\ ~chainPairs
  /\ ChainBits(triggers) = <<TRUE, TRUE, FALSE, TRUE, FALSE>>
  /\ Ranges(triggers) = <<<<0, 3>>, <<0, 3>>, <<0, 3>>, <<3, 5>>, <<3, 5>>>>

\* The bank with the chain bit of trigger k flipped
FlipChain(trigs, k) == [trigs EXCEPT ![k + 1].data1.chain = ~@]

\* C7: in paired mode every chain range has size 1 or 2; a range of size 2 is
\* [i, i+2) with i even and exists exactly when trigger i's chain bit is set
\* and i+1 < count; the chain bit of an odd trigger changes no range, and an
\* even last trigger with its chain bit set stays a singleton.
C7_PairedMode ==
  (op.name = "defineChainBounds" /\ chainPairs) =>
    /\ \A i \in 0 .. Count(triggers) - 1 :
         LET r == RangeOf(At(triggers, i))
             even == i - (i % 2)
         IN /\ r[2] - r[1] \in {1, 2}
            /\ r[2] - r[1] = 1 => r = <<i, i + 1>>
            /\ r[2] - r[1] = 2 => r = <<even, even + 2>>
            /\ r[2] - r[1] = 2 <=> (ChainBit(triggers, even) /\ even + 1 < Count(triggers))
    /\ \A k \in 0 .. Count(triggers) - 1 :
         k % 2 = 1 =>
           Ranges(defineChainBounds(FlipChain(triggers, k), TRUE)) = Ranges(triggers)

\* Five triggers, the chain bits of triggers 0, 1 and 4 set: one pair, the
\* odd trigger 1 pairs nothing and the last trigger stays alone
C7_Witness ==
  /\ op.name = "defineChainBounds" /\ chainPairs
  /\ ChainBits(triggers) = <<TRUE, TRUE, FALSE, FALSE, TRUE>>
  /\ Ranges(triggers) = <<<<0, 2>>, <<0, 2>>, <<2, 3>>, <<3, 4>>, <<4, 5>>>>

----------------------------------------------------------------------------
(* Claims on the index test and on failure (SpecIdx, SpecCfg) *)

\* C11: with a trigger index >= count each of readData1/2/3, writeData1/2/3,
\* both peeks, poke and pokeData1/2/3 returns false and leaves the bank
\* (registers, hit flags, chain ranges, count) and the caller's reference
\* arguments unchanged.
C11_IndexOutOfRange ==
  [][\A i \in IdxIndices :
       (i >= Count(triggers) /\ IndexCall(i)) =>
         /\ ret' = "false"
         /\ triggers' = triggers
         /\ chainPairs' = chainPairs
         /\ out' = out]_vars

\* A read of a bank with set registers has failed: its index was out of range
C11_Witness ==
  /\ op.name = "readData3" /\ ret = "false"
  /\ Count(triggers) = MaxTriggers
  /\ \A k \in 1 .. Len(triggers) : triggers[k].data3 = 1 /\ triggers[k].data1 = ChainCtl

\* C12: no bank operation ends in an exception, config with an index above
\* the trigger count included.
C12_NoException == ret # "out_of_range"

\* C13: writeData3 returns false for every index, value and debugMode and
\* leaves the bank, the addressed trigger's data3 included, unchanged.
C13_WriteData3Fails ==
  [][\A i \in IdxIndices, d \in BOOLEAN, v \in IdxData3 :
       WriteData3(i, d, v) =>
         /\ ret' = "false"
         /\ triggers' = triggers
         /\ chainPairs' = chainPairs]_vars

\* writeData3 has failed on a full bank, where every index below the count is
\* valid, whose data3 registers are 0 and 1
C13_Witness ==
  /\ op.name = "writeData3" /\ ret = "false"
  /\ Count(triggers) = MaxTriggers
  /\ At(triggers, 0).data3 = 0
  /\ At(triggers, MaxTriggers - 1).data3 = 1

----------------------------------------------------------------------------
(* Claims on the interrupt gate (SpecGate) *)

\* Trigger k is held back by the gate: interrupts are disabled and the
\* trigger does not enter debug mode on a hit
Gated(trigs, k, interruptEnabled) ==
  ~interruptEnabled /\ ~isEnterDebugOnHit(At(trigs, k))

\* C14: with interruptEnabled false a trigger whose isEnterDebugOnHit() is
\* false is not evaluated by the four event-hit functions nor by
\* icountTriggerHit: its localHit and its countdown stay as they are, no chain
\* resolution starts from it (its hit changes only through a chain-mate that
\* was evaluated and matched, and the call returns true only for a trigger
\* that was evaluated); with interruptEnabled true or the predicate true the
\* trigger is evaluated: a match sets its localHit, an unmodified instruction
\* count is ticked.
C14_InterruptGate ==
  [][/\ \A ev \in EventCalls, ie \in BOOLEAN :
          (ev.kind = op'.name /\ EventHit(ev, ie)) =>
            /\ \A k \in 0 .. Count(triggers) - 1 :
                 /\ Gated(triggers, k, ie) =>
                      /\ At(triggers', k).localHit = At(triggers, k).localHit
                      /\ At(triggers', k).data1 = At(triggers, k).data1
                      /\ (At(triggers', k).hit /\ ~At(triggers, k).hit) =>
                           \E j \in Members(triggers, k) :
                             ~Gated(triggers, j, ie) /\ Matches(At(triggers, j), ev)
                 /\ (~Gated(triggers, k, ie) /\ Matches(At(triggers, k), ev)) =>
                      At(triggers', k).localHit
            /\ ret' = "true" =>
                 \E k \in 0 .. Count(triggers) - 1 :
                   ~Gated(triggers, k, ie) /\ Matches(At(triggers, k), ev)
     /\ \A ie \in BOOLEAN :
          IcountTriggerHit(ie) =>
            \A k \in 0 .. Count(triggers) - 1 :
              /\ Gated(triggers, k, ie) => At(triggers', k) = At(triggers, k)
              /\ (/\ ~Gated(triggers, k, ie)
                  /\ ~isModified(At(triggers, k))
                  /\ At(triggers, k).data1.type = "InstCount") =>
                   At(triggers', k).data1.count
                     = (At(triggers, k).data1.count - 1) % Pow2(CountBits)]_vars

\* After a load-address call a matching trigger that enters debug mode has
\* its localHit while its chain-mate, which matches the same accesses but
\* raises a breakpoint, has none: the call came with interrupts disabled
C14_Witness ==
  /\ op.name = "ldStAddr" /\ ret = "false"
  /\ \E k, j \in 0 .. Count(triggers) - 1 :
       /\ At(triggers, k).data1 = AddrCtl(TRUE, "Before", "MatchAddress", "RaiseBreak", FALSE)
       /\ At(triggers, j).data1 = AddrCtl(TRUE, "Before", "MatchAddress", "EnterDebug", FALSE)
       /\ j \in Members(triggers, k)
       /\ At(triggers, j).localHit /\ ~At(triggers, k).localHit
       /\ ~At(triggers, j).hit

----------------------------------------------------------------------------
(* Claims on the comparator and the match predicates (SpecMatch) *)

Half == Pow2(HalfBits)

\* The comparator as the specification words it, on the low and high halves
\* of item and data2
RefCompare(mode, item, data2, compareMask) ==
  CASE mode = "Equal" -> item = data2
    [] mode = "Masked" -> BitAnd(item, compareMask) = BitAnd(data2, compareMask)
    [] mode = "GE" -> item >= data2
    [] mode = "LT" -> item < data2
    [] mode = "MaskHighEqualLow" ->
         BitAnd(item % Half, data2 \div Half) = data2 % Half
    [] mode = "MaskLowEqualHigh" ->
         BitAnd(item \div Half, data2 % Half) = data2 \div Half
    [] OTHER -> FALSE

\* C15: doMatch(item) is the reference comparator for every item and every
\* data2 of the register width: Equal, Masked, GE, LT as unsigned
\* comparisons, MaskHighEqualLow ((item mod 2^half) & (data2 div 2^half)) =
\* (data2 mod 2^half), MaskLowEqualHigh ((item div 2^half) & (data2 mod
\* 2^half)) = (data2 div 2^half), false for any other mode value.
C15_DoMatch ==
  op.name = "doMatch" =>
    LET t == At(triggers, 0)
    IN ret = Bool(RefCompare(t.data1.match, op.item, t.data2, t.data2CompareMask))

\* MaskHighEqualLow has matched an item that differs from data2 in the high
\* half and in a masked-out bit of the low half
C15_Witness ==
  /\ op.name = "doMatch" /\ ret = "true"
  /\ At(triggers, 0).data1.match = "MaskHighEqualLow"
  /\ op.item \div Half # At(triggers, 0).data2 \div Half
  /\ op.item % Half # At(triggers, 0).data2 % Half

MatchNames == {"matchLdStAddr", "matchLdStData", "matchInstAddr", "matchInstOpcode"}

\* The guards of a match predicate, as the specification lists them
RefGuards(t, name, timing, isLoad) ==
  /\ t.data1.type = "AddrData"
  /\ t.data1.m
  /\ t.data1.timing = timing
  /\ t.data1.select = IF name \in {"matchLdStAddr", "matchInstAddr"}
                      THEN "MatchAddress" ELSE "MatchData"
  /\ IF name \in {"matchLdStAddr", "matchLdStData"}
     THEN IF isLoad THEN t.data1.load ELSE t.data1.store
     ELSE t.data1.execute

\* C16: a match predicate returns true iff the type is AddrData, the enable
\* bit is set, the requested timing is the configured one, the select field
\* fits the event, the applicability bit fits (load for a load, store for a
\* store, execute for the instruction predicates) and doMatch of the item is
\* true; a load never matches a store-only trigger and a load or store never
\* matches an execute-only trigger.
C16_MatchPredicates ==
  op.name \in MatchNames =>
    LET t == At(triggers, 0)
        ldSt == op.name \in {"matchLdStAddr", "matchLdStData"}
    IN /\ ret = Bool(RefGuards(t, op.name, op.timing, op.isLoad) /\ doMatch(t, op.item))
       /\ (ldSt /\ op.isLoad /\ ~t.data1.load) => ret = "false"
       /\ (ldSt /\ ~t.data1.load /\ ~t.data1.store) => ret = "false"

\* A load of the address an enabled store-only address trigger compares with,
\* at its timing, has not matched
C16_Witness ==
  /\ op.name = "matchLdStAddr" /\ ret = "false" /\ op.isLoad
  /\ LET t == At(triggers, 0)
     IN /\ t.data1.type = "AddrData" /\ t.data1.m
        /\ t.data1.timing = op.timing /\ t.data1.select = "MatchAddress"
        /\ t.data1.store /\ ~t.data1.load /\ t.data1.execute
        /\ doMatch(t, op.item)

----------------------------------------------------------------------------
(* Claims on the events across calls (SpecEvt) *)

\* The members of trigger i's chain range all have trigger i's timing
UniformTiming(trigs, i) ==
  \A j \in Members(trigs, i) : getTiming(At(trigs, j)) = getTiming(At(trigs, i))

\* The members of trigger i's chain range that have localHit
LocalHits(trigs, i) == {j \in Members(trigs, i) : At(trigs, j).localHit}

\* C17: partial matches accumulate across calls.  For a chain group of two
\* or more members with uniform timing, an event-hit call after which some
\* member still has no localHit (it had none and did not match in this call)
\* leaves the hit flags of the group as they were, false when no member had
\* hit, and returns true only on account of a trigger outside the group; a
\* call in which a member matches and after which every member has localHit,
\* from this call or an earlier one, returns true and sets hit on every
\* member.
C17_PartialMatchesAccumulate ==
  [][\A ev \in EventCalls, ie \in BOOLEAN :
       (ev.kind = op'.name /\ EventHit(ev, ie)) =>
         \A i \in 0 .. Count(triggers) - 1 :
           LET group == Members(triggers, i)
               matched == {j \in group : Evaluated(triggers, j, ev, ie)}
               had == LocalHits(triggers, i)
           IN (Cardinality(group) >= 2 /\ UniformTiming(triggers, i)) =>
                /\ had \cup matched # group =>
                     /\ \A j \in group : At(triggers', j).hit = At(triggers, j).hit
                     /\ ret' = "true" =>
                          \E k \in (0 .. Count(triggers) - 1) \ group :
                            Evaluated(triggers, k, ev, ie) /\ At(triggers', k).hit
                /\ (had \cup matched = group /\ matched # {}) =>
                     /\ ret' = "true"
                     /\ \A j \in group : At(triggers', j).hit]_vars

\* A load-data call has resolved a chain whose other member compares
\* addresses and so had its localHit from an earlier call
C17_Witness ==
  /\ op.name = "ldStData" /\ ret = "true"
  /\ \E i, j \in 0 .. Count(triggers) - 1 :
       /\ j \in Members(triggers, i)
       /\ At(triggers, i).data1.type = "AddrData"
       /\ At(triggers, j).data1.type = "AddrData"
       /\ At(triggers, i).data1.select = "MatchAddress"
       /\ At(triggers, j).data1.select = "MatchData"
       /\ \A m \in Members(triggers, i) :
            At(triggers, m).hit /\ At(triggers, m).localHit

\* Trigger k's count expires in a call of icountTriggerHit: it passes the
\* interrupt gate, was not written by the current instruction, and its
\* countdown reaches zero
Expires(trigs, k, interruptEnabled) ==
  /\ isEnterDebugOnHit(At(trigs, k)) \/ interruptEnabled
  /\ ~isModified(At(trigs, k))
  /\ instCountdown(At(trigs, k))[1]

\* C18: icountTriggerHit evaluates each trigger standalone: a trigger whose
\* countdown expires gets hit and localHit and the call returns true,
\* whatever its chain range and the localHit of its chain-mates; the hit and
\* localHit of every trigger that does not expire in the call, chain-mates
\* included, stay as they are, and so do all chain ranges.
C18_IcountStandalone ==
  [][\A ie \in BOOLEAN :
       IcountTriggerHit(ie) =>
         /\ Count(triggers') = Count(triggers)
         /\ \A k \in 0 .. Count(triggers) - 1 :
              /\ Expires(triggers, k, ie) =>
                   /\ At(triggers', k).hit /\ At(triggers', k).localHit
                   /\ ret' = "true"
              /\ ~Expires(triggers, k, ie) =>
                   /\ At(triggers', k).hit = At(triggers, k).hit
                   /\ At(triggers', k).localHit = At(triggers, k).localHit
              /\ RangeOf(At(triggers', k)) = RangeOf(At(triggers, k))]_vars

\* icountTriggerHit has returned true for an expired count whose chain-mate
\* has neither localHit nor hit
C18_Witness ==
  /\ op.name = "icount" /\ ret = "true"
  /\ \E k, j \in 0 .. Count(triggers) - 1 :
       /\ j # k /\ j \in Members(triggers, k)
       /\ At(triggers, k).data1.type = "InstCount"
       /\ At(triggers, k).data1.count = 0
       /\ At(triggers, k).hit /\ At(triggers, k).localHit
       /\ ~At(triggers, j).hit /\ ~At(triggers, j).localHit

\* No hit or localHit flag of the bank is cleared by the step, and the trigger
\* count, the chain ranges, data2, data3, the masks and the reset values stay
\* as they are
FlagsGrowRestKept ==
  /\ Count(triggers') = Count(triggers)
  /\ \A k \in 0 .. Count(triggers) - 1 :
       LET t == At(triggers, k)
           u == At(triggers', k)
       IN /\ t.hit => u.hit
          /\ t.localHit => u.localHit
          /\ [u EXCEPT !.hit = FALSE, !.localHit = FALSE, !.data1 = ZeroData1]
               = [t EXCEPT !.hit = FALSE, !.localHit = FALSE, !.data1 = ZeroData1]

====
